---------------------------- MODULE Spec2Model ----------------------------
(***************************************************************************)
(* The OCR cleaning pipeline of grananderf/OCR: the text utilities         *)
(* (preCleanText, postCleanText, chunkText), the retrying external call    *)
(* (cleanTextChunk) and the run driven by the App component                *)
(* (handleFileChange, loadFileAndDetect, startProcessing).                 *)
(*                                                                         *)
(* A text is a sequence of characters; a character is a one-element        *)
(* string, and a character outside ASCII is written as its code point      *)
(* ("U+00E5" is a-ring).  Indices of the JavaScript operations are kept    *)
(* 0-based as in the source; the sequences themselves are 1-based.         *)
(***************************************************************************)
EXTENDS Integers, Sequences, FiniteSets, TLC

VARIABLES
  \* React state of App
  status, file, language, logs, progress, cleanedText, originalText,
  chapters, totalChunks, currentChunkIndex, stats,
  \* environment: process.env.API_KEY, the pending FileReader reads and how
  \* many reads were started so far, the requests of generateContent that
  \* lost the race against their timeout
  apiKey, reads, loads, abandoned,
  \* values captured by the running startProcessing call and its locals
  runOriginalText, runLanguage, runChapters, chunks, i, tempFullText,
  previousContext,
  \* locals of the running cleanTextChunk call and the await it is parked at
  attempt, dynamicInstruction, pc,
  \* history of the run: one record per committed segment, and the external
  \* calls and backoff waits of the cleanTextChunk call in progress
  segs, issued, delays,
  \* a request to stop the run, coming from outside
  cancelRequested,
  \* a single call of one of the pure text functions
  fIn, fSize, fLang, fOut, fPc

appVars == <<status, file, language, logs, progress, cleanedText,
             originalText, chapters, totalChunks, currentChunkIndex, stats>>
envVars == <<apiKey, reads, loads, abandoned>>
runVars == <<runOriginalText, runLanguage, runChapters, chunks, i,
             tempFullText, previousContext, attempt, dynamicInstruction, pc>>
histVars == <<segs, issued, delays>>
fnVars == <<fIn, fSize, fLang, fOut, fPc>>
vars == <<appVars, envVars, runVars, histVars, cancelRequested, fnVars>>

----------------------------------------------------------------------------
(* Characters and character classes of the regular expressions *)

UpperCase == <<"A","B","C","D","E","F","G","H","I","J","K","L","M",
               "N","O","P","Q","R","S","T","U","V","W","X","Y","Z">>
LowerCase == <<"a","b","c","d","e","f","g","h","i","j","k","l","m",
               "n","o","p","q","r","s","t","u","v","w","x","y","z">>
Range(s) == {s[k] : k \in DOMAIN s}
AsciiLetters == Range(UpperCase) \cup Range(LowerCase)
Digits == {"0","1","2","3","4","5","6","7","8","9"}
\* a-ring, a-umlaut, o-umlaut, lower then upper case
SwedishLower == <<"U+00E5", "U+00E4", "U+00F6">>
SwedishUpper == <<"U+00C5", "U+00C4", "U+00D6">>

Letters == AsciiLetters \cup Range(SwedishLower) \cup Range(SwedishUpper)
WordChars == AsciiLetters \cup Digits \cup {"_"}
WhiteSpace == {" ", "\t", "\n", "\r", "U+000B", "U+000C", "U+00A0", "U+FEFF",
               "U+2028", "U+2029"}
LineTerminators == {"\n", "\r", "U+2028", "U+2029"}

\* [a-zA-Z]
IsAsciiLetter(c) == c \in AsciiLetters
\* [a-zA-Z] and the six Swedish letters
IsLetter(c) == c \in Letters
\* \d
IsDigit(c) == c \in Digits
\* \w
IsWordChar(c) == c \in WordChars
\* \s: white space and line terminators
IsSpace(c) == c \in WhiteSpace
\* the characters at which ^ and $ match under the m flag
IsLineTerminator(c) == c \in LineTerminators
\* [U+2666 U+00A6 |]
IsGarbage(c) == c \in {"U+2666", "U+00A6", "|"}

Max(S) == CHOOSE x \in S : \A y \in S : y <= x
Min(S) == CHOOSE x \in S : \A y \in S : x <= y
Min2(a, b) == IF a <= b THEN a ELSE b
\* the least and the greatest k of lo..hi that P accepts, else none
First(lo, hi, P(_), none) ==
  IF \E k \in lo..hi : P(k)
    THEN CHOOSE k \in lo..hi : P(k) /\ \A j \in lo..(k - 1) : ~P(j)
    ELSE none
Last(lo, hi, P(_), none) ==
  IF \E k \in lo..hi : P(k)
    THEN CHOOSE k \in lo..hi : P(k) /\ \A j \in (k + 1)..hi : ~P(j)
    ELSE none

\* String.prototype.toLowerCase and toUpperCase on one character
LowerOf ==
  [c \in Range(UpperCase) \cup Range(SwedishUpper) |->
     IF \E k \in 1..26 : UpperCase[k] = c
       THEN LowerCase[CHOOSE k \in 1..26 : UpperCase[k] = c]
       ELSE SwedishLower[CHOOSE k \in 1..3 : SwedishUpper[k] = c]]
UpperOf ==
  [c \in Range(LowerCase) \cup Range(SwedishLower) |->
     IF \E k \in 1..26 : LowerCase[k] = c
       THEN UpperCase[CHOOSE k \in 1..26 : LowerCase[k] = c]
       ELSE SwedishUpper[CHOOSE k \in 1..3 : SwedishLower[k] = c]]
toLowerCaseChar(c) == IF c \in DOMAIN LowerOf THEN LowerOf[c] ELSE c
toUpperCaseChar(c) == IF c \in DOMAIN UpperOf THEN UpperOf[c] ELSE c
toLowerCase(t) == [k \in 1..Len(t) |-> toLowerCaseChar(t[k])]

\* the characters of t at the positions (1-based) that Keep accepts
SelectPositions(t, Keep(_)) ==
  LET marked == [k \in 1..Len(t) |-> <<t[k], Keep(k)>>]
      kept == SelectSeq(marked, LAMBDA p : p[2])
  IN  [k \in 1..Len(kept) |-> kept[k][1]]

\* String.prototype.slice(a, b) for 0 <= a, b
slice(t, a, b) == SubSeq(t, a + 1, Min2(b, Len(t)))
\* String.prototype.slice(-n)
sliceLast(t, n) == IF Len(t) <= n THEN t ELSE SubSeq(t, Len(t) - n + 1, Len(t))
\* String.prototype.lastIndexOf(pat, from), pat not empty
lastIndexOf(t, pat, from) ==
  Last(0, Min2(from, Len(t) - Len(pat)),
       LAMBDA j : \A q \in 1..Len(pat) : t[j + q] = pat[q], -1)
\* String.prototype.endsWith
endsWith(t, suffix) ==
  Len(suffix) <= Len(t) /\ SubSeq(t, Len(t) - Len(suffix) + 1, Len(t)) = suffix

RECURSIVE Concat(_)
Concat(ss) == IF ss = <<>> THEN <<>> ELSE Head(ss) \o Concat(Tail(ss))

----------------------------------------------------------------------------
(* preCleanText *)

\* /(?<=L)\.(?=L)/g, L the letter class, replaced by '': the look-arounds
\* read the string the replace was called on, so every such period goes
IsFusedDot(t, k) ==
  /\ t[k] = "."
  /\ 1 < k /\ k < Len(t)
  /\ IsLetter(t[k - 1]) /\ IsLetter(t[k + 1])
removeFusedDots(t) == SelectPositions(t, LAMBDA k : ~IsFusedDot(t, k))
\* /[U+2666 U+00A6 |]/g replaced by ''
removeGarbage(t) == SelectSeq(t, LAMBDA c : ~IsGarbage(c))

preCleanText(text) == removeGarbage(removeFusedDots(text))

----------------------------------------------------------------------------
(* postCleanText, step 1: stuttering *)

charAt(t, j) == t[j + 1]
\* the end (0-based, exclusive) of the run of \w that holds position s
wordEnd(t, s) ==
  First(s, Len(t) - 1, LAMBDA j : ~IsWordChar(charAt(t, j)), Len(t))
\* the start (0-based) of the run of \w that ends at e
wordStart(t, e) ==
  Last(1, e, LAMBDA j : ~IsWordChar(charAt(t, j - 1)), 0)
\* the end of the run of \s that starts at s
spaceEnd(t, s) ==
  First(s, Len(t) - 1, LAMBDA j : ~IsSpace(charAt(t, j)), Len(t))
\* \s*\.\s* followed by a \w, matched at e: the position of that \w, else -1
afterDot(t, e) ==
  LET d == spaceEnd(t, e)
  IN  IF d < Len(t) /\ charAt(t, d) = "."
        THEN LET w == spaceEnd(t, d + 1)
             IN  IF w < Len(t) /\ IsWordChar(charAt(t, w)) THEN w ELSE -1
        ELSE -1
\* the ends e > pos of the runs of \w that \s*\.\s*\w follows
dottedWordEnds(t, pos) ==
  {e \in (pos + 1)..Len(t) :
     /\ IsWordChar(charAt(t, e - 1))
     /\ (e = Len(t) \/ ~IsWordChar(charAt(t, e)))
     /\ afterDot(t, e) >= 0}

\* /(\w+)\s*\.\s*(\w+)/g with the callback of lines 88-93.  \w+ is greedy and
\* what follows it cannot start with a \w, so p1 runs to the end of its run
\* of \w and the leftmost match from pos starts at pos or at a run's start
stutterCallback(match, p1, p2) ==
  IF endsWith(toLowerCase(p1), toLowerCase(p2)) THEN p1 ELSE match

RECURSIVE replaceStutterFrom(_, _)
replaceStutterFrom(t, pos) ==
  LET E == dottedWordEnds(t, pos)
  IN  IF E = {} THEN slice(t, pos, Len(t))
      ELSE LET e1 == Min(E)
               ws == wordStart(t, e1)
               s == IF ws > pos THEN ws ELSE pos
               w == afterDot(t, e1)
               e2 == wordEnd(t, w)
           IN  slice(t, pos, s)
                 \o stutterCallback(slice(t, s, e2), slice(t, s, e1), slice(t, w, e2))
                 \o replaceStutterFrom(t, e2)

\* /(\w+)\s*\.\s*(\1\w*)/gi replaced by '$2'.  p1 again ends where its run of
\* \w ends, but it may start anywhere in the run: the leftmost start s whose
\* p1 is repeated, up to case, right after the period
backrefAt(t, s, e, w) ==
  /\ w + (e - s) <= Len(t)
  /\ toLowerCase(slice(t, w, w + (e - s))) = toLowerCase(slice(t, s, e))
continuationStarts(t, pos) ==
  UNION { LET ws == wordStart(t, e)
              lo == IF ws > pos THEN ws ELSE pos
          IN  {s \in lo..(e - 1) : backrefAt(t, s, e, afterDot(t, e))}
          : e \in dottedWordEnds(t, pos) }

RECURSIVE replaceContinuationFrom(_, _)
replaceContinuationFrom(t, pos) ==
  LET S == continuationStarts(t, pos)
  IN  IF S = {} THEN slice(t, pos, Len(t))
      ELSE LET s == Min(S)
               e == wordEnd(t, s)
               w == afterDot(t, e)
               e2 == wordEnd(t, w + (e - s))
           IN  slice(t, pos, s) \o slice(t, w, e2) \o replaceContinuationFrom(t, e2)

fixStuttering(t) == replaceContinuationFrom(replaceStutterFrom(t, 0), 0)

----------------------------------------------------------------------------
(* postCleanText, step 2: language specific fixes *)

\* \b at position p
IsWordBoundary(t, p) ==
  (p > 0 /\ IsWordChar(charAt(t, p - 1))) # (p < Len(t) /\ IsWordChar(charAt(t, p)))

\* new RegExp(`\\b${key}\\b`, 'gi') replaced by value; key is in lower case
wordMatchStarts(t, key, pos) ==
  {s \in pos..(Len(t) - Len(key)) :
     /\ toLowerCaseChar(charAt(t, s)) = key[1]
     /\ toLowerCase(slice(t, s, s + Len(key))) = key
     /\ IsWordBoundary(t, s)
     /\ IsWordBoundary(t, s + Len(key))}

RECURSIVE replaceWordFrom(_, _, _, _)
replaceWordFrom(t, key, value, pos) ==
  LET S == wordMatchStarts(t, key, pos)
  IN  IF S = {} THEN slice(t, pos, Len(t))
      ELSE LET s == Min(S)
           IN  slice(t, pos, s) \o value
                 \o replaceWordFrom(t, key, value, s + Len(key))
replaceWord(t, key, value) == replaceWordFrom(t, key, value, 0)

\* the entries of `replacements`, in the order Object.entries yields them
replacements == <<
  << <<"e","v","a","l","v","e","r","a","d","e">>,
     <<"e","v","o","l","v","e","r","a","d","e">> >>,
  << <<"t","i","l","l","h","a","n","d","e">>,
     <<"t","i","l","l","h","U+00F6","r","a","n","d","e">> >>,
  << <<"s","k","e","n","a","n","k","a","r">>,
     <<"s","k","e","n","t","a","n","k","a","r">> >>,
  << <<"e","r","t","a","g","e","n">>,
     <<"U+00F6","v","e","r","t","a","g","e","n">> >>,
  << <<"v","a","r","s","e","b","l","i","v","n","i","n","g","s","r","U+00F6","r","e","n">>,
     <<"v","a","r","s","e","b","l","i","v","n","i","n","g","s","m","U+00F6","n","s","t","r","e","n">> >>,
  << <<"s","k","U+00E5","n">>, <<"m","U+00E5","n">> >>,
  << <<"g","u","n","g","a","n","d","e"," ","b","e","s","t","U+00E4","l","l","n","i","n","g","e","n">>,
     <<"g","u","n","g","a","n","d","e"," ","b","U+00F6","n","e","s","t","U+00E4","l","l","n","i","n","g","e","n">> >>,
  << <<"l","y","s","s","n","a","r","t","i","l","l">>,
     <<"l","y","s","s","n","a","r"," ","t","i","l","l">> >>
>>

RECURSIVE applyReplacements(_, _)
applyReplacements(t, k) ==
  IF k > Len(replacements) THEN t
  ELSE applyReplacements(replaceWord(t, replacements[k][1], replacements[k][2]), k + 1)

\* /\bf\u00F6rser ge\b/gi replaced by 'f\u00F6rs\u00F6ker ge'
fixPhrases(t) ==
  replaceWord(t, <<"f","U+00F6","r","s","e","r"," ","g","e">>,
                 <<"f","U+00F6","r","s","U+00F6","k","e","r"," ","g","e">>)

\* ["'], and the run of them that holds position p (0-based, end exclusive)
IsStraightQuote(c) == c \in {"\"", "'"}
quoteRunStart(t, p) ==
  Last(1, p, LAMBDA j : ~IsStraightQuote(charAt(t, j - 1)), 0)
quoteRunEnd(t, p) ==
  First(p, Len(t) - 1, LAMBDA j : ~IsStraightQuote(charAt(t, j)), Len(t))

\* the text in which every run of ["'] that Hit accepts (given its start and
\* end) is replaced by one U+201D
replaceQuoteRuns(t, Hit(_, _)) ==
  LET hit(p) == IsStraightQuote(charAt(t, p))
                  /\ Hit(quoteRunStart(t, p), quoteRunEnd(t, p))
      marked == [k \in 1..Len(t) |-> IF hit(k - 1) THEN "U+201D" ELSE t[k]]
  IN  SelectPositions(marked,
        LAMBDA k : ~(hit(k - 1) /\ quoteRunStart(t, k - 1) # k - 1))

\* /["'']+(?=L)/g replaced by U+201D: the greedy run matches only
\* whole, when a letter follows it
swedishOpeningQuotes(t) ==
  replaceQuoteRuns(t, LAMBDA a, b : b < Len(t) /\ IsLetter(charAt(t, b)))
\* /(?<=L)["'']+/g replaced by U+201D
swedishClosingQuotes(t) ==
  replaceQuoteRuns(t, LAMBDA a, b : a > 0 /\ IsLetter(charAt(t, a - 1)))

\* /(^|\s)["'](?=[a-zA-Z])/g replaced by '$1' and U+201C; no m flag, so ^ is
\* the start of the text.  A match is the quote and the \s before it, and
\* no two matches overlap, so it is decided position by position
englishOpeningQuotes(t) ==
  [k \in 1..Len(t) |->
     IF /\ IsStraightQuote(t[k])
        /\ (k = 1 \/ IsSpace(t[k - 1]))
        /\ k < Len(t) /\ IsAsciiLetter(t[k + 1])
       THEN "U+201C" ELSE t[k]]
\* /(?<=[a-zA-Z.,!?])["'](?=\s|[.,!?]|$)/g replaced by U+201D
englishClosingQuotes(t) ==
  [k \in 1..Len(t) |->
     IF /\ IsStraightQuote(t[k])
        /\ k > 1 /\ (IsAsciiLetter(t[k - 1]) \/ t[k - 1] \in {".", ",", "!", "?"})
        /\ (k = Len(t) \/ IsSpace(t[k + 1]) \/ t[k + 1] \in {".", ",", "!", "?"})
       THEN "U+201D" ELSE t[k]]

languageFixes(t, lang) ==
  IF lang = "sv"
    THEN swedishClosingQuotes(swedishOpeningQuotes(fixPhrases(applyReplacements(t, 1))))
    ELSE englishClosingQuotes(englishOpeningQuotes(t))

----------------------------------------------------------------------------
(* postCleanText, step 3: artifacts *)

\* ^ and $ under the m flag, at position p
IsLineStart(t, p) == p = 0 \/ IsLineTerminator(charAt(t, p - 1))
IsLineEnd(t, p) == p = Len(t) \/ IsLineTerminator(charAt(t, p))
digitEnd(t, s) ==
  First(s, Len(t) - 1, LAMBDA j : ~IsDigit(charAt(t, j)), Len(t))

\* ^\s*-?\s*\d+ matched at s: where the digits start, else -1.  Giving back
\* part of the first \s* changes nothing: the second \s* takes it
pageNumberDigits(t, s) ==
  LET a == spaceEnd(t, s)
      b == IF a < Len(t) /\ charAt(t, a) = "-" THEN spaceEnd(t, a + 1) ELSE a
  IN  IF b < Len(t) /\ IsDigit(charAt(t, b)) THEN b
      ELSE IF a < Len(t) /\ IsDigit(charAt(t, a)) THEN a ELSE -1
\* \s*-?\s*$ matched at d, where the digits end: where the match ends, else
\* -1.  The greedy choices are tried first: all of the first \s*, then the
\* dash, then as much of the second \s* as leaves a line end
pageNumberEnd(t, d) ==
  LET a == spaceEnd(t, d)
      dashed == IF a < Len(t) /\ charAt(t, a) = "-"
                  THEN {p \in (a + 1)..spaceEnd(t, a + 1) : IsLineEnd(t, p)}
                  ELSE {}
      plain == {p \in d..a : IsLineEnd(t, p)}
  IN  IF dashed # {} THEN Max(dashed)
      ELSE IF plain # {} THEN Max(plain) ELSE -1
\* /^\s*-?\s*\d+\s*-?\s*$/gm matched at s: where the match ends, else -1
pageNumberMatch(t, s) ==
  IF ~IsLineStart(t, s) THEN -1
  ELSE LET b == pageNumberDigits(t, s)
       IN  IF b < 0 THEN -1 ELSE pageNumberEnd(t, digitEnd(t, b))

RECURSIVE removePageNumbersFrom(_, _)
removePageNumbersFrom(t, pos) ==
  LET S == {s \in pos..Len(t) : pageNumberMatch(t, s) >= 0}
  IN  IF S = {} THEN slice(t, pos, Len(t))
      ELSE LET s == Min(S)
           IN  slice(t, pos, s) \o removePageNumbersFrom(t, pageNumberMatch(t, s))
removePageNumbers(t) == removePageNumbersFrom(t, 0)

\* /\t/g replaced by ''
removeTabs(t) == SelectSeq(t, LAMBDA c : c # "\t")
\* /[\u00AD\u200B]/g replaced by ''
removeSoftHyphens(t) == SelectSeq(t, LAMBDA c : c \notin {"U+00AD", "U+200B"})
\* /  +/g replaced by ' '
normalizeSpaces(t) ==
  SelectPositions(t, LAMBDA k : ~(t[k] = " " /\ k > 1 /\ t[k - 1] = " "))
\* /\n{3,}/g replaced by '\n\n'
normalizeLineBreaks(t) ==
  SelectPositions(t,
    LAMBDA k : ~(t[k] = "\n" /\ k > 2 /\ t[k - 1] = "\n" /\ t[k - 2] = "\n"))

cleanupArtifacts(t) ==
  normalizeLineBreaks(normalizeSpaces(removeSoftHyphens(removeTabs(
    removePageNumbers(removeFusedDots(t))))))

postCleanText(text, lang) ==
  cleanupArtifacts(languageFixes(fixStuttering(text), lang))

----------------------------------------------------------------------------
(* chunkText *)

DefaultChunkSize == 1500

\* the end of the segment that starts at index; index + size < Len(text).
\* size * 0.5 and size * 0.7 are compared as exact rationals: for the sizes
\* used here the double products are exact or lie 0.1 away from an integer
chunkEnd(text, size, index) ==
  LET end == index + size
      lastParagraphBreak == lastIndexOf(text, <<"\n", "\n">>, end)
      lastPeriod == lastIndexOf(text, <<".">>, end)
      lastNewLine == lastIndexOf(text, <<"\n">>, end)
  IN  IF 2 * lastParagraphBreak > 2 * index + size THEN lastParagraphBreak + 2
      ELSE IF 10 * lastPeriod > 10 * index + 7 * size THEN lastPeriod + 1
      ELSE IF 10 * lastNewLine > 10 * index + 7 * size THEN lastNewLine + 1
      ELSE end

\* chunkTextFrom with the character at the cut dropped: index = end + 1
RECURSIVE chunkTextFromDroppingCut(_, _, _)
chunkTextFromDroppingCut(text, size, index) ==
  IF index >= Len(text) THEN <<>>
  ELSE IF index + size >= Len(text) THEN <<slice(text, index, Len(text))>>
  ELSE LET end == chunkEnd(text, size, index)
       IN  <<slice(text, index, end)>> \o chunkTextFromDroppingCut(text, size, end + 1)

RECURSIVE chunkTextFrom(_, _, _)
chunkTextFrom(text, size, index) ==
  IF index >= Len(text) THEN <<>>
  ELSE IF index + size >= Len(text) THEN <<slice(text, index, Len(text))>>
  ELSE LET end == chunkEnd(text, size, index)
       IN  <<slice(text, index, end)>> \o chunkTextFrom(text, size, end)

chunkText(text, size) == chunkTextFrom(text, size, 0)

----------------------------------------------------------------------------
(* detectChapters *)

ChapterLineLimit == 80

toUpperCase(t) == [k \in 1..Len(t) |-> toUpperCaseChar(t[k])]

\* String.prototype.split('\n')
RECURSIVE splitLinesFrom(_, _)
splitLinesFrom(t, pos) ==
  LET n == First(pos, Len(t) - 1, LAMBDA j : charAt(t, j) = "\n", -1)
  IN  IF n < 0 THEN <<slice(t, pos, Len(t))>>
      ELSE <<slice(t, pos, n)>> \o splitLinesFrom(t, n + 1)
\* String.prototype.trim
trim(t) ==
  LET a == First(1, Len(t), LAMBDA k : ~IsSpace(t[k]), 0)
  IN  IF a = 0 THEN <<>>
      ELSE SubSeq(t, a, Last(1, Len(t), LAMBDA k : ~IsSpace(t[k]), 0))

startsWithAt(t, p, word) ==
  p + Len(word) <= Len(t) /\ slice(t, p, p + Len(word)) = word
\* \s+\d+ matched at p
spacesThenDigit(t, p) ==
  LET e == spaceEnd(t, p) IN e > p /\ e < Len(t) /\ IsDigit(charAt(t, e))

swedishKeywords == { <<"k","a","p","i","t","e","l">>, <<"d","e","l">>,
                     <<"a","v","d","e","l","n","i","n","g">>, <<"b","o","k">> }
englishKeywords == { <<"c","h","a","p","t","e","r">>, <<"p","a","r","t">>,
                     <<"s","e","c","t","i","o","n">>, <<"b","o","o","k">> }
\* /^(?:kapitel|del|avdelning|bok)\s+\d+.*$/i: no m flag, and . stops at a
\* line terminator
swedishKeywordPattern(t) ==
  \E w \in swedishKeywords :
    /\ startsWithAt(toLowerCase(t), 0, w)
    /\ spacesThenDigit(t, Len(w))
    /\ \A j \in spaceEnd(t, Len(w))..(Len(t) - 1) : ~IsLineTerminator(charAt(t, j))
\* /^(?:chapter|part|section|book)\s+\d+.*$|^\d+\.\s+[A-Z].*$/m: the m flag
\* lets ^ and $ match at every line terminator of the trimmed line
englishKeywordPattern(t) ==
  \E p \in 0..Len(t) :
    /\ IsLineStart(t, p)
    /\ \/ \E w \in englishKeywords : startsWithAt(t, p, w) /\ spacesThenDigit(t, p + Len(w))
       \/ /\ p < Len(t) /\ IsDigit(charAt(t, p))
          /\ LET d == digitEnd(t, p)
             IN  /\ d < Len(t) /\ charAt(t, d) = "."
                 /\ LET e == spaceEnd(t, d + 1)
                    IN  e > d + 1 /\ e < Len(t) /\ charAt(t, e) \in Range(UpperCase)

IsChapterLine(trimmed, lang) ==
  /\ trimmed # <<>>
  /\ Len(trimmed) <= ChapterLineLimit
  /\ \/ IF lang = "sv" THEN swedishKeywordPattern(trimmed)
                       ELSE englishKeywordPattern(trimmed)
     \/ /\ Len(trimmed) >= 3
        /\ trimmed = toUpperCase(trimmed)
        /\ \E k \in 1..Len(trimmed) :
             trimmed[k] \in Range(UpperCase) \cup Range(SwedishUpper)
        /\ trimmed[Len(trimmed)] # "."

\* [...new Set(chapters)]: the first occurrence of every chapter line
detectChapters(text, lang) ==
  LET lines == splitLinesFrom(text, 0)
      trimmed == [k \in 1..Len(lines) |-> trim(lines[k])]
  IN  SelectPositions(trimmed,
        LAMBDA k : /\ IsChapterLine(trimmed[k], lang)
                   /\ \A j \in 1..(k - 1) : trimmed[j] # trimmed[k])

----------------------------------------------------------------------------
(* The files the user can pick, and what the external service can answer *)

Rep(c, n) == [k \in 1..n |-> c]

NoFile == "none"
\* readFileContent: the decoded text of each file.  note.txt is one segment;
\* book.txt is two, the first ends after its period; long.txt is fourteen,
\* one more than the failure entries the log can hold next to the six
\* entries every run writes
FileContent(f) ==
  CASE f = "note.txt" ->
         <<"K","a","p","i","t","e","l"," ","1","\n","a",".","|","b"," "," ","\t">>
    [] f = "book.txt" ->
         <<"I","N","T","R","O","\n">> \o Rep("a", 1100) \o <<" "," ","\t">>
           \o Rep("b", 100) \o <<"."," ","c","|">> \o Rep("c", 900)
    [] f = "long.txt" -> Rep("e", 13 * DefaultChunkSize + 1)
Files == {"note.txt", "book.txt"}
LongFiles == {"long.txt"}
Languages == {"sv", "en"}

\* response.text of generateContent; the empty text stands for a response
\* without text as well (response.text || "")
Responses == { <<>>,
               Rep("z", 499) \o <<" "," ","a"," ",".","\t","a","b","\"","c","\"">> }

\* The texts below are fixed, so what the text functions make of them is
\* evaluated once: detectChapters of a file's text, chunkText of its
\* pre-cleaned text, postCleanText of a response
FileTexts == {FileContent(f) : f \in Files \cup LongFiles}
detectedChapters ==
  [f \in Files \cup LongFiles |->
     [l \in Languages |-> detectChapters(FileContent(f), l)]]
chunksOf ==
  [t \in FileTexts |-> chunkText(preCleanText(t), DefaultChunkSize)]
postCleaned ==
  [r \in Responses |-> [l \in Languages |-> postCleanText(r, l)]]

----------------------------------------------------------------------------
(* App: the log, file loading *)

LogLimit == 15
Log(message, type) == [message |-> message, type |-> type]
\* addLog: newest first, the 15 newest kept; id and timestamp left out
addLog(ls, message, type) ==
  LET all == <<Log(message, type)>> \o ls
  IN  SubSeq(all, 1, Min2(Len(all), LogLimit))

NoStats == "null"
NoInstruction == "none"
MaxLoads == 2
MaxAbandoned == 1

\* loadFileAndDetect up to its await: the log entry and the pending read
StartRead(ls, f, lang) ==
  /\ loads < MaxLoads
  /\ loads' = loads + 1
  /\ logs' = addLog(ls, <<"Reading file to analyze structure", lang>>, "info")
  /\ reads' = Append(reads, [file |-> f, lang |-> lang])

RunUntouched ==
  UNCHANGED <<runVars, histVars, apiKey, abandoned, cancelRequested, fnVars>>

\* no startProcessing call is running, and what the last one left is gone
NoRun ==
  /\ runOriginalText' = <<>> /\ runLanguage' = "sv" /\ runChapters' = <<>>
  /\ chunks' = <<>> /\ i' = 0 /\ tempFullText' = <<>> /\ previousContext' = <<>>
  /\ UNCHANGED <<attempt, dynamicInstruction, pc>>
  /\ segs' = <<>>
  /\ UNCHANGED <<issued, delays>>

handleFileChange(f) ==
  /\ status # "PROCESSING"
  /\ file' = f
  /\ status' = "IDLE"
  /\ cleanedText' = <<>>
  /\ originalText' = <<>>
  /\ stats' = NoStats
  /\ progress' = 0
  /\ chapters' = <<>>
  /\ currentChunkIndex' = 0
  /\ totalChunks' = 0
  /\ StartRead(<<>>, f, language)
  /\ UNCHANGED language
  /\ NoRun
  /\ UNCHANGED <<apiKey, abandoned, cancelRequested, fnVars>>

\* the language select, and the effect that re-reads the file
setLanguage(l) ==
  /\ status # "PROCESSING"
  /\ l # language
  /\ language' = l
  /\ IF file # NoFile /\ status = "IDLE"
       THEN StartRead(logs, file, l)
       ELSE UNCHANGED <<logs, reads, loads>>
  /\ UNCHANGED <<status, file, progress, cleanedText, originalText, chapters,
                 totalChunks, currentChunkIndex, stats>>
  /\ RunUntouched

RemoveAt(q, k) == SubSeq(q, 1, k - 1) \o SubSeq(q, k + 1, Len(q))

\* loadFileAndDetect after its await, the read having succeeded
readDone(k) ==
  /\ k \in 1..Len(reads)
  /\ LET text == FileContent(reads[k].file)
         detected == detectedChapters[reads[k].file][reads[k].lang]
     IN  /\ originalText' = text
         /\ chapters' = detected
         /\ logs' = IF Len(detected) > 0
                      THEN addLog(logs, <<"Detected potential chapters", Len(detected)>>, "success")
                      ELSE addLog(logs, <<"No obvious chapters detected">>, "info")
  /\ reads' = RemoveAt(reads, k)
  /\ UNCHANGED <<status, file, language, progress, cleanedText, totalChunks,
                 currentChunkIndex, stats, loads>>
  /\ RunUntouched

\* loadFileAndDetect after its await, the read having failed
readFailed(k) ==
  /\ k \in 1..Len(reads)
  /\ logs' = addLog(logs, <<"Error reading file">>, "error")
  /\ reads' = RemoveAt(reads, k)
  /\ UNCHANGED <<status, file, language, progress, cleanedText, originalText,
                 chapters, totalChunks, currentChunkIndex, stats, loads>>
  /\ RunUntouched

----------------------------------------------------------------------------
(* getChangeStatistics *)

\* the thresholds of the tiers, in per cent
VeryLowBelow == 1
HealthyBelow == 12
ModerateBelow == 25

\* the tokens diffWords aligns: each word with the white space after it;
\* white space at the start of the text is a token of its own
RECURSIVE wordTokensFrom(_, _)
wordTokensFrom(t, s) ==
  IF s > Len(t) THEN <<>>
  ELSE LET atStart(k) == ~IsSpace(t[k]) /\ IsSpace(t[k - 1])
           e == First(s + 1, Len(t), atStart, Len(t) + 1)
       IN  <<SubSeq(t, s, e - 1)>> \o wordTokensFrom(t, e)
wordTokens(t) == wordTokensFrom(t, 1)

\* the length of a longest common subsequence of a from ia and b from ib
RECURSIVE lcsLength(_, _, _, _)
lcsLength(a, b, ia, ib) ==
  IF ia > Len(a) \/ ib > Len(b) THEN 0
  ELSE IF a[ia] = b[ib] THEN 1 + lcsLength(a, b, ia + 1, ib + 1)
  ELSE LET skipA == lcsLength(a, b, ia + 1, ib)
           skipB == lcsLength(a, b, ia, ib + 1)
       IN  IF skipA >= skipB THEN skipA ELSE skipB

\* one part of the result of diffWords
Part(value, added, removed) == [value |-> value, added |-> added, removed |-> removed]

\* a minimal edit script over the tokens, one part per token (the sums of
\* getChangeStatistics do not depend on how neighbouring parts are merged);
\* of two scripts of the same length the one that removes first is taken
RECURSIVE diffTokensFrom(_, _, _, _)
diffTokensFrom(a, b, ia, ib) ==
  IF ia > Len(a) /\ ib > Len(b) THEN <<>>
  ELSE IF ia > Len(a) THEN <<Part(b[ib], TRUE, FALSE)>> \o diffTokensFrom(a, b, ia, ib + 1)
  ELSE IF ib > Len(b) THEN <<Part(a[ia], FALSE, TRUE)>> \o diffTokensFrom(a, b, ia + 1, ib)
  ELSE IF a[ia] = b[ib]
    THEN <<Part(a[ia], FALSE, FALSE)>> \o diffTokensFrom(a, b, ia + 1, ib + 1)
  ELSE IF lcsLength(a, b, ia + 1, ib) >= lcsLength(a, b, ia, ib + 1)
    THEN <<Part(a[ia], FALSE, TRUE)>> \o diffTokensFrom(a, b, ia + 1, ib)
    ELSE <<Part(b[ib], TRUE, FALSE)>> \o diffTokensFrom(a, b, ia, ib + 1)
diffWords(original, cleaned) ==
  diffTokensFrom(wordTokens(original), wordTokens(cleaned), 1, 1)

\* the sum of the lengths of the parts from the k-th on whose flags are in kinds
RECURSIVE partsLength(_, _, _)
partsLength(changes, kinds, k) ==
  IF k > Len(changes) THEN 0
  ELSE (IF <<changes[k].added, changes[k].removed>> \in kinds
          THEN Len(changes[k].value) ELSE 0)
       + partsLength(changes, kinds, k + 1)

\* a percentage is kept as the exact ratio num / den; line 207 computes it
\* in floating point, which compares with the thresholds in the same way
\* for the lengths used here
Below(percentage, threshold) == percentage.num < threshold * percentage.den

\* lines 212-224
tierOf(percentage) ==
  IF Below(percentage, VeryLowBelow) THEN "very low"
  ELSE IF Below(percentage, HealthyBelow) THEN "healthy"
  ELSE IF Below(percentage, ModerateBelow) THEN "moderate"
  ELSE "high alert"

\* getChangeStatistics; the fields original and cleaned record what it was
\* called with
getChangeStatistics(original, cleaned) ==
  LET changes == diffWords(original, cleaned)
      addedLen == partsLength(changes, {<<TRUE, FALSE>>}, 1)
      removedLen == partsLength(changes, {<<FALSE, TRUE>>}, 1)
      totalLen == partsLength(changes, {<<FALSE, TRUE>>, <<FALSE, FALSE>>}, 1)
      percentage == IF totalLen > 0
                      THEN [num |-> (addedLen + removedLen) * 100, den |-> totalLen]
                      ELSE [num |-> 0, den |-> 1]
      tier == tierOf(percentage)
      statusColor == IF tier \in {"very low", "healthy"} THEN "green"
                     ELSE IF tier = "moderate" THEN "yellow" ELSE "red"
  IN  [percentage |-> percentage, added |-> addedLen, removed |-> removedLen,
       analysis |-> tier, statusColor |-> statusColor,
       original |-> original, cleaned |-> cleaned]

\* the texts a run can end with, from segment k of cs on, in language l:
\* per segment the segment itself or postCleanText of a response
RECURSIVE outputsFrom(_, _, _)
outputsFrom(cs, l, k) ==
  IF k > Len(cs) THEN {<<>>}
  ELSE {piece \o rest :
          piece \in {cs[k]} \cup {postCleaned[r][l] : r \in Responses},
          rest \in outputsFrom(cs, l, k + 1)}

\* evaluated once: getChangeStatistics of a file's text and a text a run on
\* it can end with (for the long files, the run in which every segment fell
\* back)
changeStatistics ==
  [t \in FileTexts |->
     [c \in IF t \in {FileContent(f) : f \in Files}
              THEN UNION {outputsFrom(chunksOf[t], l, 1) : l \in Languages}
              ELSE {Concat(chunksOf[t])} |->
        getChangeStatistics(t, c)]]

----------------------------------------------------------------------------
(* cleanTextChunk and startProcessing *)

MAX_RETRIES == 5
BackoffBase == 1000
ContextLength == 500

\* the system instruction of cleanTextChunk: the template of the language,
\* the previous context when it is not empty, the known chapters when there
\* are any
Instruction(lang, context, knownChapters) ==
  [template |-> lang, context |-> context, chapters |-> knownChapters]


\* one committed segment: its number (from 1), the text appended for it, and
\* whether it is the fallback of lines 313-318
Seg(k, piece, failed) == [index |-> k, piece |-> piece, failed |-> failed]

\* no cleanTextChunk call is running
NoRequest ==
  /\ dynamicInstruction' = NoInstruction
  /\ attempt' = 0 /\ issued' = 0 /\ delays' = <<>>

\* startProcessing after its loop: lines 321-329
Finish(ls, original, text, committed) ==
  /\ logs' = addLog(addLog(ls, <<"All chunks processed successfully!">>, "success"),
                    <<"Calculating quality statistics...">>, "info")
  /\ stats' = changeStatistics[original][text]
  /\ status' = "COMPLETED"
  /\ pc' = "idle"
  /\ segs' = committed
  /\ NoRequest

\* the call of generateContent of one attempt: cleanTextChunk is parked at
\* the Promise.race of line 123
Request(k, lang, context, knownChapters, calls) ==
  /\ i' = k
  /\ currentChunkIndex' = k + 1
  /\ dynamicInstruction' = Instruction(lang, context, knownChapters)
  /\ attempt' = 0
  /\ pc' = "race"
  /\ issued' = calls
  /\ delays' = <<>>

\* the loop of startProcessing after segment i is committed: the next
\* segment's first attempt, or the end of the run
Continue(ls, text, context, committed) ==
  /\ tempFullText' = text
  /\ previousContext' = context
  /\ IF i + 1 < Len(chunks)
       THEN /\ Request(i + 1, runLanguage, context, runChapters, 1)
            /\ logs' = ls
            /\ segs' = committed
            /\ UNCHANGED <<status, stats>>
       ELSE /\ Finish(ls, runOriginalText, text, committed)
            /\ i' = i + 1
            /\ UNCHANGED currentChunkIndex

\* Fallback without the setCleanedText of line 317
FallbackNotShown(loop, cs, k, error) ==
  [logs |-> addLog(loop.logs, <<"Error processing chunk", k, error>>, "error"),
   text |-> loop.text \o cs[k],
   context |-> sliceLast(cs[k], ContextLength),
   cleaned |-> loop.cleaned,
   segs |-> Append(loop.segs, Seg(k, cs[k], TRUE))]

\* the catch of lines 313-318 for segment k of cs, as a state of the loop
Fallback(loop, cs, k, error) ==
  [logs |-> addLog(loop.logs, <<"Error processing chunk", k, error>>, "error"),
   text |-> loop.text \o cs[k],
   context |-> sliceLast(cs[k], ContextLength),
   cleaned |-> loop.cleaned \o cs[k],
   segs |-> Append(loop.segs, Seg(k, cs[k], TRUE))]

\* without an API key cleanTextChunk throws before any await, so the loop
\* runs through every segment within the click
RECURSIVE keylessLoop(_, _, _)
keylessLoop(loop, cs, k) ==
  IF k > Len(cs) THEN loop
  ELSE keylessLoop(Fallback(loop, cs, k, "API Key is missing"), cs, k + 1)

startProcessing ==
  /\ status # "PROCESSING"
  /\ file # NoFile /\ originalText # <<>>
  /\ LET cs == chunksOf[originalText]
         ls == addLog(addLog(addLog(addLog(<<>>,
                 <<"Starting process", file, language>>, "info"),
                 <<"Using defined chapters", Len(chapters)>>, "info"),
                 <<"Running pre-cleaning">>, "info"),
                 <<"Split text into chunks", Len(cs)>>, "info")
     IN  /\ runOriginalText' = originalText
         /\ runLanguage' = language
         /\ runChapters' = chapters
         /\ chunks' = cs
         /\ totalChunks' = Len(cs)
         /\ progress' = 0
         /\ IF cs = <<>>
              THEN /\ Finish(ls, originalText, <<>>, <<>>)
                   /\ cleanedText' = <<>>
                   /\ tempFullText' = <<>>
                   /\ previousContext' = <<>>
                   /\ i' = 0
                   /\ UNCHANGED currentChunkIndex
              ELSE IF apiKey
                THEN /\ status' = "PROCESSING"
                     /\ stats' = NoStats
                     /\ logs' = ls
                     /\ cleanedText' = <<>>
                     /\ tempFullText' = <<>>
                     /\ previousContext' = <<>>
                     /\ segs' = <<>>
                     /\ Request(0, language, <<>>, chapters, 1)
                ELSE LET end == keylessLoop(
                               [logs |-> ls, text |-> <<>>, context |-> <<>>,
                                cleaned |-> <<>>, segs |-> <<>>], cs, 1)
                     IN  /\ Finish(end.logs, originalText, end.text, end.segs)
                         /\ cleanedText' = end.cleaned
                         /\ tempFullText' = end.text
                         /\ previousContext' = end.context
                         /\ i' = Len(cs)
                         /\ currentChunkIndex' = Len(cs)
  /\ cancelRequested' = FALSE
  /\ UNCHANGED <<file, language, originalText, chapters, envVars, fnVars>>

AppUntouched == UNCHANGED <<file, language, originalText, chapters, totalChunks>>
CallUntouched == UNCHANGED <<runOriginalText, runLanguage, runChapters, chunks>>

\* the request of the current attempt resolves first: lines 123-124, then
\* lines 294-311 of the loop.  (chunksCompleted / chunks.length) * 100 is a
\* whole number for the one and two segments of Files
attemptResolved(response) ==
  /\ pc = "race"
  /\ LET processedChunk == postCleaned[response][runLanguage]
     IN  /\ cleanedText' = cleanedText \o processedChunk
         /\ progress' = ((i + 1) * 100) \div Len(chunks)
         /\ Continue(logs, tempFullText \o processedChunk,
                     sliceLast(processedChunk, ContextLength),
                     Append(segs, Seg(i + 1, processedChunk, FALSE)))
  /\ AppUntouched /\ CallUntouched
  /\ UNCHANGED <<envVars, cancelRequested, fnVars>>

\* Retry with the delay computed before attempt++
RetryDelayBeforeIncrement ==
  /\ attempt' = attempt + 1
  /\ delays' = Append(delays, BackoffBase * 2 ^ attempt)
  /\ pc' = "wait"
  /\ UNCHANGED <<appVars, runOriginalText, runLanguage, runChapters, chunks, i,
                 tempFullText, previousContext, dynamicInstruction, segs, issued,
                 apiKey, reads, loads, cancelRequested, fnVars>>

\* the catch of lines 126-130, up to the await of the backoff wait
Retry ==
  /\ attempt' = attempt + 1
  /\ delays' = Append(delays, BackoffBase * 2 ^ (attempt + 1))
  /\ pc' = "wait"
  /\ UNCHANGED <<appVars, runOriginalText, runLanguage, runChapters, chunks, i,
                 tempFullText, previousContext, dynamicInstruction, segs, issued,
                 apiKey, reads, loads, cancelRequested, fnVars>>

\* the request of the current attempt rejects first
attemptRejected ==
  /\ pc = "race"
  /\ Retry
  /\ UNCHANGED abandoned

\* the timeout of the current attempt fires first: the request stays in
\* flight, nothing aborts it
attemptTimedOut ==
  /\ pc = "race"
  /\ abandoned < MaxAbandoned
  /\ Retry
  /\ abandoned' = abandoned + 1

\* abandonedSettled with the late response shown as output
abandonedSettledShown ==
  /\ abandoned > 0
  /\ abandoned' = abandoned - 1
  /\ \E response \in Responses :
       cleanedText' = cleanedText \o postCleaned[response][runLanguage] \o <<"!">>
  /\ UNCHANGED <<status, file, language, logs, progress, originalText, chapters,
                 totalChunks, currentChunkIndex, stats>>
  /\ UNCHANGED <<runVars, histVars, apiKey, reads, loads, cancelRequested, fnVars>>

\* a request that lost the race settles: nothing listens any more
abandonedSettled ==
  /\ abandoned > 0
  /\ abandoned' = abandoned - 1
  /\ UNCHANGED <<appVars, runVars, histVars, apiKey, reads, loads, cancelRequested,
                 fnVars>>

\* backoffDone without the catch of lines 313-318: the throw of line 134
\* reaches the catch of lines 331-335
backoffDoneFatal ==
  /\ pc = "wait"
  /\ IF attempt < MAX_RETRIES
       THEN /\ pc' = "race"
            /\ issued' = issued + 1
            /\ UNCHANGED <<appVars, runOriginalText, runLanguage, runChapters,
                           chunks, i, tempFullText, previousContext, attempt,
                           dynamicInstruction, segs, delays>>
       ELSE /\ logs' = addLog(logs, <<"Fatal error">>, "error")
            /\ status' = "ERROR"
            /\ pc' = "idle"
            /\ NoRequest
            /\ UNCHANGED <<file, language, progress, cleanedText, originalText,
                           chapters, totalChunks, currentChunkIndex, stats,
                           runOriginalText, runLanguage, runChapters, chunks, i,
                           tempFullText, previousContext, segs>>
  /\ UNCHANGED <<envVars, cancelRequested, fnVars>>

\* the backoff wait is over: the next attempt, or the throw of line 134 and
\* the catch of lines 313-318
backoffDone ==
  /\ pc = "wait"
  /\ IF attempt < MAX_RETRIES
       THEN /\ pc' = "race"
            /\ issued' = issued + 1
            /\ UNCHANGED <<appVars, runOriginalText, runLanguage, runChapters,
                           chunks, i, tempFullText, previousContext, attempt,
                           dynamicInstruction, segs, delays>>
       ELSE LET end == Fallback([logs |-> logs, text |-> tempFullText,
                                 cleaned |-> cleanedText, segs |-> segs],
                                chunks, i + 1, "Failed to process chunk")
            IN  /\ cleanedText' = end.cleaned
                /\ Continue(end.logs, end.text, end.context, end.segs)
                /\ UNCHANGED progress
                /\ AppUntouched /\ CallUntouched
  /\ UNCHANGED <<envVars, cancelRequested, fnVars>>

\* somebody outside asks the run to stop; nothing in the program reads it
requestCancel ==
  /\ status = "PROCESSING"
  /\ ~cancelRequested
  /\ cancelRequested' = TRUE
  /\ UNCHANGED <<appVars, envVars, runVars, histVars, fnVars>>

----------------------------------------------------------------------------
(* The App from its first render on *)

NoCall == "none"

InitApp ==
  /\ status = "IDLE" /\ file = NoFile /\ language = "sv" /\ logs = <<>>
  /\ progress = 0 /\ cleanedText = <<>> /\ originalText = <<>>
  /\ chapters = <<>> /\ totalChunks = 0 /\ currentChunkIndex = 0
  /\ stats = NoStats
  /\ reads = <<>> /\ loads = 0 /\ abandoned = 0
  /\ runOriginalText = <<>> /\ runLanguage = "sv" /\ runChapters = <<>>
  /\ chunks = <<>> /\ i = 0 /\ tempFullText = <<>> /\ previousContext = <<>>
  /\ attempt = 0 /\ dynamicInstruction = NoInstruction /\ pc = "idle"
  /\ segs = <<>> /\ issued = 0 /\ delays = <<>>
  /\ cancelRequested = FALSE

NoFunction ==
  fIn = <<>> /\ fSize = 0 /\ fLang = "sv" /\ fOut = <<>> /\ fPc = NoCall

Init == InitApp /\ apiKey \in BOOLEAN /\ NoFunction

User ==
  \/ \E f \in Files : handleFileChange(f)
  \/ \E l \in Languages : setLanguage(l)
  \/ startProcessing
Reader ==
  \/ \E k \in 1..MaxLoads : readDone(k)
  \/ \E k \in 1..MaxLoads : readFailed(k)
Service ==
  \/ \E r \in Responses : attemptResolved(r)
  \/ attemptRejected
  \/ attemptTimedOut
  \/ abandonedSettled
Next == User \/ Reader \/ Service \/ backoffDone

Spec == Init /\ [][Next]_vars

\* Every request is answered, rejected or overtaken by its timer
\* (setTimeout of line 101), and every backoff timer (line 68) fires
attemptSettles ==
  \/ \E r \in Responses : attemptResolved(r)
  \/ attemptRejected
  \/ attemptTimedOut
FairSpec == Spec /\ WF_vars(attemptSettles) /\ WF_vars(backoffDone)

\* The same App with somebody who may ask a run to stop
SpecCancel == Init /\ [][Next \/ requestCancel]_vars

\* The App with the long file, and a service that rejects every request
NextLong ==
  \/ \E f \in LongFiles : handleFileChange(f)
  \/ \E k \in 1..MaxLoads : readDone(k)
  \/ startProcessing
  \/ attemptRejected
  \/ backoffDone
SpecLong == Init /\ [][NextLong]_vars

----------------------------------------------------------------------------
(* The text functions on their own: one call on an arbitrary short text,   *)
(* and for the normalizers a second call on the result of the first        *)

MaxChunkTextLen == 5
MaxChunkSize == 4
MaxPreTextLen == 4
MaxPostTextLen == 4

Texts(alphabet, n) == UNION {[1..k -> alphabet] : k \in 0..n}

\* the characters chunkText looks for, and one it does not
ChunkAlphabet == {"a", ".", " ", "\n"}
\* letters, the period and a character of the garbage rule
PreAlphabet == {"a", "B", ".", "|"}
\* a letter, a digit, and the characters the rules of postCleanText look for
PostAlphabet == {"a", "1", ".", " ", "\t", "\n", "\""}

Idle == InitApp /\ apiKey = FALSE

FunctionUntouched ==
  UNCHANGED <<appVars, envVars, runVars, histVars, cancelRequested, fSize, fLang>>

InitChunk ==
  /\ Idle
  /\ fIn \in Texts(ChunkAlphabet, MaxChunkTextLen)
  /\ fSize \in 1..MaxChunkSize
  /\ fLang = "sv" /\ fOut = <<>> /\ fPc = "chunkText"

callChunkText ==
  /\ fPc = "chunkText"
  /\ fOut' = chunkText(fIn, fSize)
  /\ fPc' = "chunked"
  /\ UNCHANGED fIn
  /\ FunctionUntouched

SpecChunk == InitChunk /\ [][callChunkText]_vars

\* texts with up to two breaks between runs of "a", cut at sizes whose half
\* and whose seven tenths are whole numbers
MaxCutRun == 7
CutSizes == {6, 10}
CutBreaks == {<<>>, <<"\n", "\n">>, <<".">>, <<"\n">>}
CutTexts ==
  {Rep("a", m) \o b1 \o Rep("a", n) \o b2 \o Rep("a", r) :
     m \in 0..MaxCutRun, n \in 0..MaxCutRun, r \in 0..MaxCutRun,
     b1 \in CutBreaks, b2 \in CutBreaks}

InitCut ==
  /\ Idle
  /\ fIn \in CutTexts
  /\ fSize \in CutSizes
  /\ fLang = "sv" /\ fOut = <<>> /\ fPc = "chunkText"

SpecCut == InitCut /\ [][callChunkText]_vars

InitPre ==
  /\ Idle
  /\ fIn \in Texts(PreAlphabet, MaxPreTextLen)
  /\ fSize = 0 /\ fLang = "sv" /\ fOut = <<>> /\ fPc = "preCleanText"

callPreCleanText ==
  /\ fPc = "preCleanText"
  /\ fOut' = preCleanText(fIn)
  /\ fPc' = "preCleaned"
  /\ UNCHANGED fIn
  /\ FunctionUntouched

\* preCleanText called on what the first call returned
callPreCleanTextAgain ==
  /\ fPc = "preCleaned"
  /\ fIn' = fOut
  /\ fOut' = preCleanText(fOut)
  /\ fPc' = "preCleanedTwice"
  /\ FunctionUntouched

SpecPre == InitPre /\ [][callPreCleanText \/ callPreCleanTextAgain]_vars

InitPost ==
  /\ Idle
  /\ fIn \in Texts(PostAlphabet, MaxPostTextLen)
  /\ fLang \in Languages
  /\ fSize = 0 /\ fOut = <<>> /\ fPc = "postCleanText"

callPostCleanText ==
  /\ fPc = "postCleanText"
  /\ fOut' = postCleanText(fIn, fLang)
  /\ fPc' = "postCleaned"
  /\ UNCHANGED fIn
  /\ FunctionUntouched

\* postCleanText called on what the first call returned
callPostCleanTextAgain ==
  /\ fPc = "postCleaned"
  /\ fIn' = fOut
  /\ fOut' = postCleanText(fOut, fLang)
  /\ fPc' = "postCleanedTwice"
  /\ FunctionUntouched

SpecPost == InitPost /\ [][callPostCleanText \/ callPostCleanTextAgain]_vars

MaxStutterTextLen == 5
\* two letters, one of them in both cases, the period and the space
StutterAlphabet == {"a", "b", "B", ".", " "}

InitStutter ==
  /\ Idle
  /\ fIn \in Texts(StutterAlphabet, MaxStutterTextLen)
  /\ fSize = 0 /\ fLang = "sv" /\ fOut = <<>> /\ fPc = "fixStuttering"

\* the two replaces of step 1 of postCleanText
callFixStuttering ==
  /\ fPc = "fixStuttering"
  /\ fOut' = fixStuttering(fIn)
  /\ fPc' = "stutterFixed"
  /\ UNCHANGED fIn
  /\ FunctionUntouched

SpecStutter == InitStutter /\ [][callFixStuttering]_vars

MaxStatsTextLen == 4
StatsAlphabet == {"a", "b", " "}
\* "The qick fox" and "The quick fox"
QickFox == <<"T","h","e"," ","q","i","c","k"," ","f","o","x">>
QuickFox == <<"T","h","e"," ","q","u","i","c","k"," ","f","o","x">>

InitStats ==
  /\ Idle
  /\ \/ fIn \in [original : Texts(StatsAlphabet, MaxStatsTextLen),
                  cleaned : Texts(StatsAlphabet, MaxStatsTextLen)]
     \/ fIn = [original |-> QickFox, cleaned |-> QuickFox]
  /\ fSize = 0 /\ fLang = "sv" /\ fOut = <<>> /\ fPc = "getChangeStatistics"

callGetChangeStatistics ==
  /\ fPc = "getChangeStatistics"
  /\ fOut' = getChangeStatistics(fIn.original, fIn.cleaned)
  /\ fPc' = "statistics"
  /\ UNCHANGED fIn
  /\ FunctionUntouched

SpecStats == InitStats /\ [][callGetChangeStatistics]_vars

----------------------------------------------------------------------------
(* Properties of the text functions *)

\* C5: the segments chunkText returns, concatenated in order, are the text;
\* none of them is empty, and the empty text has no segment
ChunkTextPartitions ==
  fPc = "chunked" =>
    /\ Concat(fOut) = fIn
    /\ \A k \in 1..Len(fOut) : fOut[k] # <<>>
    /\ (fIn = <<>> => fOut = <<>>)

\* chunkText cut a text into several segments, the first one at a break
\* rather than at the target size
ChunkTextCutAtBreak ==
  /\ fPc = "chunked"
  /\ Len(fOut) >= 2
  /\ Len(fOut[1]) # fSize

\* C9: preCleanText of what preCleanText returned is that same text
PreCleanTextIdempotent ==
  fPc = "preCleanedTwice" => fOut = fIn

\* C10: postCleanText of what postCleanText returned, in the same language,
\* is that same text
PostCleanTextIdempotent ==
  fPc = "postCleanedTwice" => fOut = fIn

----------------------------------------------------------------------------
(* Properties of a run *)

\* C1: with an API key, a segment is committed as a fallback only after
\* exactly MAX_RETRIES external calls, the waits after the failures having
\* been 1000 * 2^k ms after the k-th, strictly increasing; what is committed
\* is the segment's text unchanged, and an error entry for the segment is
\* logged
ExhaustedRetriesThenFallback ==
  [][(apiKey /\ Len(segs') = Len(segs) + 1 /\ segs'[Len(segs')].failed) =>
       /\ issued = MAX_RETRIES
       /\ delays = [k \in 1..MAX_RETRIES |-> BackoffBase * 2 ^ k]
       /\ \A k \in 1..(Len(delays) - 1) : delays[k] < delays[k + 1]
       /\ segs'[Len(segs')].piece = chunks[i + 1]
       /\ cleanedText' = cleanedText \o chunks[i + 1]
       /\ tempFullText' = tempFullText \o chunks[i + 1]
       /\ \E e \in 1..Len(logs') :
            /\ logs'[e].type = "error"
            /\ Len(logs'[e].message) = 3
            /\ logs'[e].message[2] = i + 1]_vars

\* a segment was committed as a fallback in a run with an API key
FallbackAfterRetries ==
  /\ apiKey
  /\ \E k \in 1..Len(segs) : segs[k].failed

\* C2: a run never ends in ERROR, a run that is COMPLETED has committed
\* every segment, and every run that is PROCESSING gets COMPLETED
FailuresNeverStopTheRun ==
  /\ [](status # "ERROR")
  /\ [](status = "COMPLETED" => Len(segs) = Len(chunks))
  /\ (status = "PROCESSING") ~> (status = "COMPLETED")

\* a run with an API key is COMPLETED, its first segment having failed and
\* a later one having been transformed
CompletedAfterFailure ==
  /\ status = "COMPLETED" /\ apiKey
  /\ Len(segs) >= 2
  /\ segs[1].failed
  /\ \E k \in 2..Len(segs) : ~segs[k].failed

\* C3: while segment i + 1 is attempted, the context in its instruction is
\* the last ContextLength characters of the post-normalized output of
\* segment i (postCleanText of the response, or of the segment text after
\* a fallback), and empty for the first segment
ContextIsProcessedTail ==
  pc \in {"race", "wait"} =>
    /\ Len(dynamicInstruction.context) <= ContextLength
    /\ dynamicInstruction.context =
         IF i = 0 THEN <<>>
         ELSE IF segs[i].failed
           THEN sliceLast(postCleanText(segs[i].piece, runLanguage), ContextLength)
           ELSE sliceLast(segs[i].piece, ContextLength)

\* C4: once somebody asked the run to stop, the next commit of a segment
\* ends the run: no attempt for a further segment is started
CancelStopsAtBoundary ==
  [][(cancelRequested /\ Len(segs') > Len(segs)) => pc' = "idle"]_vars

\* C6: at COMPLETED the output is the pieces of segments 1..n in this
\* order, one per segment; a failed segment's piece is the segment's text,
\* and when all failed the output is the pre-cleaned source text
CompletedOutputIsOnePiecePerSegment ==
  status = "COMPLETED" =>
    /\ Len(segs) = Len(chunks)
    /\ \A k \in 1..Len(segs) : segs[k].index = k
    /\ cleanedText = Concat([k \in 1..Len(segs) |-> segs[k].piece])
    /\ tempFullText = cleanedText
    /\ \A k \in 1..Len(segs) : segs[k].failed => segs[k].piece = chunks[k]
    /\ (\A k \in 1..Len(segs) : segs[k].failed)
         => cleanedText = preCleanText(runOriginalText)

\* a run of two segments is COMPLETED, one segment having failed and one
\* having been transformed
CompletedMixedRun ==
  /\ status = "COMPLETED"
  /\ Len(segs) = 2
  /\ \E k \in 1..2 : segs[k].failed
  /\ \E k \in 1..2 : ~segs[k].failed /\ segs[k].piece # <<>>

\* C7: the request of the current attempt and the requests that lost the
\* race against their timeout are at most one request in flight
AtMostOneRequestOutstanding ==
  (IF pc = "race" THEN 1 ELSE 0) + abandoned <= 1

\* C8: at COMPLETED every segment committed as a fallback has its error
\* entry in the log (ChangeStats, the final report, has no field for it)
EveryFallbackVisibleAtCompleted ==
  status = "COMPLETED" =>
    \A k \in 1..Len(segs) :
      segs[k].failed =>
        \E e \in 1..Len(logs) :
          /\ logs[e].type = "error"
          /\ Len(logs[e].message) = 3
          /\ logs[e].message[2] = k

\* C11: the stutter repair changes a text only if it holds a sequence
\* A . B of two whole word tokens, white space allowed around the period,
\* where B, up to case, is a suffix of A or starts with A
StutterRepairOnlyOnWholeTokens ==
  fPc = "stutterFixed" =>
    \/ fOut = fIn
    \/ \E e \in dottedWordEnds(fIn, 0) :
         LET w == afterDot(fIn, e)
             A == toLowerCase(slice(fIn, wordStart(fIn, e), e))
             B == toLowerCase(slice(fIn, w, wordEnd(fIn, w)))
         IN  \/ endsWith(A, B)
             \/ Len(A) <= Len(B) /\ SubSeq(B, 1, Len(A)) = A

\* C12: the change report of "The qick fox" against "The quick fox" is in
\* the negligible or the healthy tier: green, with a ratio below 12%
QickFoxIsHealthy ==
  (fPc = "statistics" /\ fIn = [original |-> QickFox, cleaned |-> QuickFox]) =>
    /\ fOut.analysis \in {"very low", "healthy"}
    /\ fOut.statusColor = "green"
    /\ Below(fOut.percentage, HealthyBelow)

\* C13: the tier of a report is fixed by its ratio: negligible below 1%,
\* healthy from 1% to below 12%, moderate from 12% up to and including 25%,
\* high alert exactly when the ratio is strictly greater than 25%
TierByThresholds ==
  fPc = "statistics" =>
    LET r == fOut.percentage
    IN  fOut.analysis =
          IF r.num < VeryLowBelow * r.den THEN "very low"
          ELSE IF r.num < HealthyBelow * r.den THEN "healthy"
          ELSE IF r.num <= ModerateBelow * r.den THEN "moderate"
          ELSE "high alert"

\* C14: the text appended for every committed segment is postCleanText of
\* that segment's text: of the response, or of the segment itself when the
\* segment fell back; the trailing context is the tail of that text
PostPassOnEveryCommit ==
  /\ \A k \in 1..Len(segs) :
       IF segs[k].failed
         THEN segs[k].piece = postCleanText(chunks[segs[k].index], runLanguage)
         ELSE \E r \in Responses : segs[k].piece = postCleaned[r][runLanguage]
  /\ Len(segs) > 0 =>
       previousContext = sliceLast(segs[Len(segs)].piece, ContextLength)

\* C17: a backoff wait lies between two attempts only: no wait follows the
\* failure of attempt MAX_RETRIES, and a segment that falls back has had
\* MAX_RETRIES - 1 waits
WaitOnlyBetweenAttempts ==
  /\ pc = "wait" => attempt < MAX_RETRIES
  /\ Len(delays) <= MAX_RETRIES - 1

\* C20: whatever the run's conditions (a missing API key included), a step
\* that commits a fallback follows MAX_RETRIES issued attempts of that
\* segment, never fewer and never none
FallbackOnlyAfterMaxRetries ==
  [][(segs' # segs /\ Len(segs') > 0 /\ segs'[Len(segs')].failed) =>
       issued = MAX_RETRIES]_vars

\* C15: every segment but the last ends at the last paragraph break when
\* that lies at or after 50% of the window; else after the last period when
\* that lies at or after 70% of the window; else after the last line break
\* under the same 70% rule; else at exactly index + targetSize
CutPointPriority ==
  fPc = "chunked" =>
    \A k \in 1..(Len(fOut) - 1) :
      LET index == Len(Concat(SubSeq(fOut, 1, k - 1)))
          end == index + fSize
          lastParagraphBreak == lastIndexOf(fIn, <<"\n", "\n">>, end)
          lastPeriod == lastIndexOf(fIn, <<".">>, end)
          lastNewLine == lastIndexOf(fIn, <<"\n">>, end)
          cut == IF 2 * lastParagraphBreak >= 2 * index + fSize
                   THEN lastParagraphBreak + 2
                 ELSE IF 10 * lastPeriod >= 10 * index + 7 * fSize
                   THEN lastPeriod + 1
                 ELSE IF 10 * lastNewLine >= 10 * index + 7 * fSize
                   THEN lastNewLine + 1
                 ELSE end
      IN  Len(fOut[k]) = cut - index

\* C16: no segment chunkText returns is longer than the target size
SegmentWithinTargetSize ==
  fPc = "chunked" => \A k \in 1..Len(fOut) : Len(fOut[k]) <= fSize

\* C18: while a run is PROCESSING originalText is the text the run started
\* with, whenever a pending file read lands; at COMPLETED the original shown
\* is the text the change report was computed from
OriginalTextFixedDuringRun ==
  /\ status = "PROCESSING" => originalText = runOriginalText
  /\ status = "COMPLETED" => originalText = stats.original

\* C19: every change of the language with a file picked starts a re-read of
\* the file, in any status; and a run that is PROCESSING works on the text
\* of the picked file with the chapters detected in the current language
RereadOnEveryChange ==
  /\ [][(language' # language /\ file # NoFile) => Len(reads') = Len(reads) + 1]_vars
  /\ [](status = "PROCESSING" =>
          /\ runLanguage = language
          /\ runOriginalText = FileContent(file)
          /\ runChapters = detectedChapters[file][language])

\* C21: the response of an attempt that timed out is discarded whenever it
\* arrives: the step in which it arrives changes neither the committed
\* segments, nor the accumulated text, the shown text, the trailing context
\* or the position of the run; and the k-th commit is that of segment k, so
\* each segment is committed once
LateResponseDiscarded ==
  /\ [][abandoned' < abandoned =>
          UNCHANGED <<segs, tempFullText, cleanedText, previousContext,
                      dynamicInstruction, i, attempt, pc, status, progress>>]_vars
  /\ [](/\ Len(segs) <= Len(chunks)
        /\ \A k \in 1..Len(segs) : segs[k].index = k)

\* the response of an attempt that timed out is still outstanding while a
\* later segment is attempted
LateResponseAfterCommit ==
  /\ abandoned > 0
  /\ pc = "race"
  /\ Len(segs) > 0

\* C22: while a run is PROCESSING the progress never decreases, and at
\* COMPLETED, the run having committed at least one segment, it is 100,
\* whichever segments succeeded and whichever fell back
ProgressTracksCommits ==
  /\ [][(status = "PROCESSING" /\ status' # "IDLE") => progress' >= progress]_vars
  /\ []((status = "COMPLETED" /\ Len(segs) > 0) => progress = 100)

=============================================================================
